---- MODULE Spec2Model ----
(***************************************************************************)
(* A model of the simplerr errors package: the With combinator (wrapper),  *)
(* the stack-annotating decorators (withStack, withFields), the chain      *)
(* queries Is / As / Unwrap, suffix elision of stack snapshots, and the    *)
(* Sentry stack-trace extraction.                                          *)
(*                                                                         *)
(* Error values are records tagged with their Go type ("kind").  Values of *)
(* pointer types carry the identity of their allocation ("id"), so that    *)
(* record equality is Go's == on interfaces: pointer identity for pointer  *)
(* types, value equality for value types.  Nodes allocated inside a query  *)
(* (wrapper.Unwrap allocates) carry id 0 until the program stores them.    *)
(* Strings are sequences of tokens; concatenation is \o.                   *)
(***************************************************************************)
EXTENDS Integers, Sequences, FiniteSets, TLC

VARIABLES
    regs,       \* the program's error variables: register -> error value
    nextId,     \* next free allocation identity
    arrays,     \* backing arrays of the captured stacks: array id -> PCs
    maps,       \* the Fields maps of the program: map id -> key -> value
    callstack,  \* the call stack of the running function, newest first
    walk,       \* a loop of single-step unwraps over a With result
    last,       \* the last library call: its arguments and its result
    el,         \* a call of ElideSharedStackSuffix: arguments and results
    gor         \* the goroutines sharing the error: goroutine -> its position

vars == <<regs, nextId, arrays, maps, callstack, walk, last, el, gor>>

-----------------------------------------------------------------------------
(* Bounds of the model *)

MaxAlloc == 2      \* allocations of error nodes in one run
MaxCalls == 1      \* user frames pushed over main
MaxLen == 3        \* frames of a snapshot given to ElideSharedStackSuffix
MaxNodes == 10     \* nodes of an error value the program builds
MaxDepth == 130    \* user frames above main when Callers is called
MaxSkip == 2       \* frames a caller of Callers skips
MaxStacked == 3    \* annotations of the program that prints
MaxOperandAllocs == 3 \* allocations that build the operands of With
MaxMaps == 3       \* maps of the program that changes its maps

Regs == {1}        \* the error variables of the program

-----------------------------------------------------------------------------
(* Values *)

Nil == [kind |-> "nil"]

sep == <<": ">>

\* Program counters.  User code: UserPCs; PCs 1 and 2 are the root frames.
pcGoexit == 1
pcRuntimeMain == 2
pcMain == 3
UserPCs == {4, 5}

\* Frames of the library itself, as runtime.Callers records them.
pcRuntimeCallers == 90
pcCaptureStacktrace == 91
pcCallers == 92
pcWithStackDepth == 93
pcWithStack == 94
pcWrapWithFieldsAndDepth == 95
pcWrapWithFields == 96
pcNewSentryStacktrace == 97
pcExtractSentryStacktrace == 98
pcnewError == 99
pcKhanWrap == 100
pcNotFound == 101
pcInternal == 102

\* errors.New(text): a *errorString.
errorString(id, msg) == [kind |-> "errorString", id |-> id, msg |-> msg]

\* A value-typed error of the tests (type myError string).
myError(msg) == [kind |-> "myError", msg |-> msg]

\* The kinds whose Go type has the method named.
HasUnwrap(e) == e.kind \in {"wrapError", "wrapper", "withStack", "withFields"}
HasCause(e) == e.kind \in {"withStack", "withFields"}
HasIs(e) == e.kind \in {"wrapper", "withStack", "withFields"}
HasAs(e) == e.kind \in {"wrapper", "withStack", "withFields"}

\* reflect.TypeOf(target).Comparable(): every modelled type is a pointer,
\* a string type or a struct of strings.
Comparable(e) == e.kind \in {"errorString", "myError", "wrapError", "wrapper",
                             "withStack", "withFields", "errorKind"}

\* Target types of As, by name: the kinds assignable to each.
Implementors(T) ==
    CASE T = "error" -> {"errorString", "myError", "wrapError", "wrapper",
                         "withStack", "withFields", "errorKind"}
      [] T = "Unwrapper" -> {"wrapError", "wrapper", "withStack", "withFields"}
      [] OTHER -> {T}

TargetTypes == {"error", "Unwrapper", "errorString", "myError", "wrapError",
                "withStack", "withFields"}

AssignableTo(e, T) == e.kind \in Implementors(T)

-----------------------------------------------------------------------------
(* with.go: the With combinator *)

\* With without the test of front.
With_NoFrontTest(back, front, id) ==
    IF back = Nil THEN Nil
    ELSE [kind |-> "wrapper", id |-> id, front |-> front, back |-> back]

\* With(back, front)
With(back, front, id) ==
    IF back = Nil THEN Nil
    ELSE IF front = Nil THEN back
    ELSE [kind |-> "wrapper", id |-> id, front |-> front, back |-> back]

RECURSIVE ErrorsUnwrap(_)
RECURSIVE wrapper_Unwrap(_)

\* The standard library's errors.Unwrap: the Unwrap method, when there is one.
ErrorsUnwrap(e) ==
    CASE e.kind = "wrapError" -> e.err
      [] e.kind = "withStack" -> e.cause
      [] e.kind = "withFields" -> e.cause
      [] e.kind = "wrapper" -> wrapper_Unwrap(e)
      [] OTHER -> Nil

\* wrapper.Unwrap dropping the rest of front's chain after its head.
wrapper_Unwrap_DropFront(s) == s.back

\* wrapper.Unwrap ending at the end of front's chain, without back.
wrapper_Unwrap_DropBack(s) ==
    LET err == ErrorsUnwrap(s.front) IN
    IF err # Nil
    THEN [kind |-> "wrapper", id |-> 0, front |-> err, back |-> s.back]
    ELSE Nil

\* (s *wrapper) Unwrap()
wrapper_Unwrap(s) ==
    LET err == ErrorsUnwrap(s.front) IN
    IF err # Nil
    THEN [kind |-> "wrapper", id |-> 0, front |-> err, back |-> s.back]
    ELSE s.back

\* UnwrapOnce: one step of the chain, through Cause() or Unwrap().
UnwrapOnce(e) ==
    IF HasCause(e) THEN e.cause
    ELSE IF HasUnwrap(e) THEN ErrorsUnwrap(e)
    ELSE Nil

-----------------------------------------------------------------------------
(* Is: stderrors.go, with.go, and the decorators' Is methods *)

RECURSIVE MethodIs(_, _)
RECURSIVE wrapper_Is(_, _)
RECURSIVE wrapper_Is_loop(_, _)
RECURSIVE decorator_Is(_, _)
RECURSIVE stdIs(_, _)

\* equal(err, reference): Go's == on the two interface values.
equal(err, reference) == err = reference

\* x.Is(target) for an x that has the method.
MethodIs(x, target) ==
    IF x.kind = "wrapper" THEN wrapper_Is(x, target)
    ELSE decorator_Is(x, target)

\* (w *withStack) Is(target) and (w *withFields) Is(target): the same body.
decorator_Is(w, target) ==
    IF target = Nil THEN FALSE
    ELSE \/ (Comparable(target) /\ w.cause = target)
         \/ (HasIs(w.cause) /\ MethodIs(w.cause, target))

\* The standard library's errors.Is, which wrapper.Is calls on each inner.
stdIs(err, target) ==
    IF err = Nil THEN FALSE
    ELSE \/ (Comparable(target) /\ err = target)
         \/ (HasIs(err) /\ MethodIs(err, target))
         \/ stdIs(ErrorsUnwrap(err), target)

\* The loop of wrapper.Is: for inner := s.Unwrap(); inner != nil; ...
wrapper_Is_loop(inner, target) ==
    IF inner = Nil THEN FALSE
    ELSE stdIs(inner, target) \/ wrapper_Is_loop(UnwrapOnce(inner), target)

\* (s *wrapper) Is(target)
wrapper_Is(s, target) ==
    IF target = Nil THEN FALSE
    ELSE \/ (Comparable(target) /\ s.front = target)
         \/ (HasIs(s.front) /\ MethodIs(s.front, target))
         \/ (HasIs(s.back) /\ MethodIs(s.back, target))
         \/ wrapper_Is_loop(wrapper_Unwrap(s), target)

\* tryDelegateToIsMethod(err, reference)
tryDelegateToIsMethod(err, reference) ==
    HasIs(err) /\ MethodIs(err, reference)

RECURSIVE Is_loop(_, _)
\* The loop of Is: for c := err; c != nil; c = UnwrapOnce(c)
Is_loop(c, reference) ==
    IF c = Nil THEN FALSE
    ELSE \/ equal(c, reference)
         \/ tryDelegateToIsMethod(c, reference)
         \/ Is_loop(UnwrapOnce(c), reference)

\* Is(err, reference)
Is(err, reference) ==
    IF reference = Nil THEN err = Nil
    ELSE Is_loop(err, reference)

-----------------------------------------------------------------------------
(* As: stderrors.go, with.go, and the decorators' As methods.  The result  *)
(* is whether a value was found and the value stored through the target.   *)

NoMatch == [ok |-> FALSE, val |-> Nil]
Match(v) == [ok |-> TRUE, val |-> v]

RECURSIVE MethodAs(_, _)
RECURSIVE wrapper_As(_, _)
RECURSIVE wrapper_As_loop(_, _)
RECURSIVE decorator_As(_, _)
RECURSIVE stdAs(_, _)

\* x.As(target) for an x that has the method.
MethodAs(x, T) ==
    IF x.kind = "wrapper" THEN wrapper_As(x, T)
    ELSE decorator_As(x, T)

\* (w *withStack) As(target) and (w *withFields) As(target): the same body.
decorator_As(w, T) ==
    IF AssignableTo(w.cause, T) THEN Match(w.cause)
    ELSE IF HasAs(w.cause) THEN MethodAs(w.cause, T)
    ELSE NoMatch

\* The standard library's errors.As, which wrapper.As calls on each inner.
stdAs(err, T) ==
    IF err = Nil THEN NoMatch
    ELSE IF AssignableTo(err, T) THEN Match(err)
    ELSE LET m == IF HasAs(err) THEN MethodAs(err, T) ELSE NoMatch IN
         IF m.ok THEN m ELSE stdAs(ErrorsUnwrap(err), T)

\* The loop of wrapper.As: for inner := s.Unwrap(); inner != nil; ...
wrapper_As_loop(inner, T) ==
    IF inner = Nil THEN NoMatch
    ELSE LET m == stdAs(inner, T) IN
         IF m.ok THEN m ELSE wrapper_As_loop(UnwrapOnce(inner), T)

\* wrapper.As reading back before front.
wrapper_As_BackFirst(s, T) ==
    LET b == stdAs(s.back, T) IN
    IF b.ok THEN b
    ELSE IF AssignableTo(s.front, T) THEN Match(s.front)
    ELSE IF HasAs(s.front) THEN MethodAs(s.front, T) ELSE NoMatch

\* (s *wrapper) As(target)
wrapper_As(s, T) ==
    IF AssignableTo(s.front, T) THEN Match(s.front)
    ELSE LET m == IF HasAs(s.front) THEN MethodAs(s.front, T) ELSE NoMatch IN
         IF m.ok THEN m ELSE wrapper_As_loop(wrapper_Unwrap(s), T)

RECURSIVE As_loop(_, _)
\* The loop of As: for c := err; c != nil; c = UnwrapOnce(c)
As_loop(c, T) ==
    IF c = Nil THEN NoMatch
    ELSE IF AssignableTo(c, T) THEN Match(c)
    ELSE LET m == IF HasAs(c) THEN MethodAs(c, T) ELSE NoMatch IN
         IF m.ok THEN m ELSE As_loop(UnwrapOnce(c), T)

\* As(err, target), target pointing to a variable of type T
As(err, T) == As_loop(err, T)


-----------------------------------------------------------------------------
(* Messages: Error() of every kind *)

\* Keys of Fields maps in sort.Strings order; "nil" stands for a nil value.
KeysSorted == <<"b", "c", "msg">>

RECURSIVE formatFields_loop(_, _, _)
\* The loop of formatFields over the sorted keys, from key number i on;
\* first says that no key has been written yet.
formatFields_loop(fields, i, first) ==
    IF i > Len(KeysSorted) THEN <<>>
    ELSE LET k == KeysSorted[i] IN
         IF k \notin DOMAIN fields
         THEN formatFields_loop(fields, i + 1, first)
         ELSE (IF first THEN <<>> ELSE <<",">>)
              \o (IF fields[k] # "nil" THEN <<k, ":", fields[k]>> ELSE <<k>>)
              \o formatFields_loop(fields, i + 1, FALSE)

\* formatFields(fields)
formatFields(fields) ==
    IF DOMAIN fields = {} THEN <<>>
    ELSE <<"fields:[">> \o formatFields_loop(fields, 1, TRUE) \o <<"],">>

\* wrapper.Error writing the separator whatever the messages are.
wrapper_Error_AlwaysSep(front, back) == front \o sep \o back

\* (s *wrapper) Error(), from the two messages
wrapper_Error(front, back) ==
    IF front = <<>> THEN back
    ELSE IF back = <<>> THEN front
    ELSE front \o sep \o back

RECURSIVE Error(_)
\* err.Error()
Error(e) ==
    CASE e.kind = "wrapper" -> wrapper_Error(Error(e.front), Error(e.back))
      [] e.kind = "withStack" -> Error(e.cause)
      [] e.kind = "withFields" ->
            formatFields(maps[e.fields]) \o Error(e.cause)
      [] OTHER -> e.msg

\* fmt.Errorf(prefix + ": %w", err): a *fmt.wrapError
Errorf(prefix, err, id) ==
    [kind |-> "wrapError", id |-> id, msg |-> prefix \o sep \o Error(err),
     err |-> err]

-----------------------------------------------------------------------------
(* Stack snapshots: capture and suffix elision *)

\* A *Stack: nil, or a pointer to a slice of program counters.
NilStack == [isNil |-> TRUE, pcs |-> <<>>]
StackOf(pcs) == [isNil |-> FALSE, pcs |-> pcs]

Min(a, b) == IF a < b THEN a ELSE b

\* runtime.Callers(skip, pcs) on the stack rt (rt[1] is runtime.Callers
\* itself) with a buffer of buflen entries: the counters written.
runtimeCallers(skip, rt, buflen) ==
    IF skip >= Len(rt) THEN <<>>
    ELSE SubSeq(rt, skip + 1, Min(Len(rt), skip + buflen))

numFrames == 64

\* captureStacktrace taking the first capture, full buffer or not.
captureStacktrace_NoGrowth(skip, rt, buflen) ==
    runtimeCallers(skip, rt, buflen)

RECURSIVE captureStacktrace_loop(_, _, _)
\* The growth loop of captureStacktrace: double the buffer while it is full.
captureStacktrace_loop(skip, rt, buflen) ==
    LET got == runtimeCallers(skip, rt, buflen) IN
    IF Len(got) = buflen
    THEN captureStacktrace_loop(skip, rt, buflen * 2)
    ELSE got

\* captureStacktrace(skip), called by Callers with the frames outer above it
captureStacktrace(skip, outer) ==
    captureStacktrace_loop(skip + 2,
        <<pcRuntimeCallers, pcCaptureStacktrace, pcCallers>> \o outer,
        numFrames)

\* Callers(skip)
Callers(skip, outer) == captureStacktrace(skip, outer)

RECURSIVE ElideSharedStackSuffix_loop(_, _, _, _)
\* The loop of ElideSharedStackSuffix; i and j are Go's 0-based indexes.
ElideSharedStackSuffix_loop(newSt, prevSt, i, j) ==
    IF i > 0 /\ j > 0 /\ newSt[i + 1] = prevSt[j + 1]
    THEN ElideSharedStackSuffix_loop(newSt, prevSt, i - 1, j - 1)
    ELSE i

\* ElideCut without the guard that keeps at least one entry.
ElideCut_NoKeep(prevSt, newSt) ==
    ElideSharedStackSuffix_loop(newSt, prevSt, Len(newSt) - 1, Len(prevSt) - 1)

\* The index at which ElideSharedStackSuffix cuts newSt.
ElideCut(prevSt, newSt) ==
    LET i == ElideSharedStackSuffix_loop(newSt, prevSt,
                                         Len(newSt) - 1, Len(prevSt) - 1)
    IN IF i = 0 THEN 1 ELSE i

\* ElideSharedStackSuffix(prevStack, newStack): the stack and the flag
ElideSharedStackSuffix(prevStack, newStack) ==
    IF newStack.isNil \/ prevStack.isNil
    THEN [st |-> newStack, elided |-> FALSE]
    ELSE IF Len(prevStack.pcs) = 0 \/ Len(newStack.pcs) = 0
    THEN [st |-> newStack, elided |-> FALSE]
    ELSE LET i == ElideCut(prevStack.pcs, newStack.pcs) IN
         [st |-> StackOf(SubSeq(newStack.pcs, 1, i)),
          elided |-> i < Len(newStack.pcs) - 1]

\* The program counters a node's Stack field shows: the first len entries
\* of its backing array.
Snapshot(arrs, n) == SubSeq(arrs[n.stack.arr], 1, n.stack.len)

HasStack(e) == e.kind \in {"withStack", "withFields"}

RECURSIVE getLastStack(_)
\* getLastStack(err): the Stack of the nearest annotated node, or nil
getLastStack(err) ==
    IF err = Nil THEN NilStack
    ELSE IF HasStack(err) THEN StackOf(Snapshot(arrays, err))
    ELSE getLastStack(UnwrapOnce(err))


-----------------------------------------------------------------------------
(* The annotating constructors.  Each yields the value returned and the    *)
(* backing arrays after the call; outer is the stack of the caller.        *)

\* WithStackDepth(err, depth)
WithStackDepth(err, depth, outer, id) ==
    IF err = Nil THEN [res |-> Nil, arrays |-> arrays]
    ELSE LET st == Callers(depth + 2, <<pcWithStackDepth>> \o outer)
             prevStack == getLastStack(err)
             r == ElideSharedStackSuffix(prevStack, StackOf(st))
         IN [res |-> [kind |-> "withStack", id |-> id, cause |-> err,
                      stack |-> [arr |-> Len(arrays) + 1,
                                 len |-> Len(r.st.pcs)],
                      hasSkippedFrames |-> r.elided],
             arrays |-> Append(arrays, st)]

\* WithStack(err)
WithStack(err, outer, id) ==
    WithStackDepth(err, 1, <<pcWithStack>> \o outer, id)

\* WrapWithFieldsAndDepth(err, fields, depth); fields is a map of the
\* program, or 0 for a nil map
WrapWithFieldsAndDepth(err, fields, depth, outer, id) ==
    IF err = Nil THEN [res |-> Nil, arrays |-> arrays]
    ELSE IF fields = 0
    THEN WithStackDepth(err, depth + 1,
                        <<pcWrapWithFieldsAndDepth>> \o outer, id)
    ELSE LET st == Callers(depth + 2, <<pcWrapWithFieldsAndDepth>> \o outer)
             prevStack == getLastStack(err)
             r == ElideSharedStackSuffix(prevStack, StackOf(st))
         IN [res |-> [kind |-> "withFields", id |-> id, cause |-> err,
                      stack |-> [arr |-> Len(arrays) + 1,
                                 len |-> Len(r.st.pcs)],
                      hasSkippedFrames |-> r.elided, fields |-> fields],
             arrays |-> Append(arrays, st)]

\* WrapWithFields(err, fields)
WrapWithFields(err, fields, outer, id) ==
    WrapWithFieldsAndDepth(err, fields, 1, <<pcWrapWithFields>> \o outer, id)

-----------------------------------------------------------------------------
(* The verbose report: withStack.formatEntries, withFields.formatEntries *)

\* FormatStack(stack): every frame but the final one.
FormatStack(pcs) == IF pcs = <<>> THEN <<>> ELSE SubSeq(pcs, 1, Len(pcs) - 1)

\* outputStackTrace(st, hasSkippedFrames, stackTraceString): what is written
outputStackTrace(hasSkippedFrames, trace) ==
    [marker |-> hasSkippedFrames \/ trace # <<>>,
     trace |-> trace,
     repeated |-> hasSkippedFrames]

\* printEntry(st, entry): the text and the stack trace written
printEntry(entry) ==
    [text |-> IF Error(entry) # <<>> THEN <<" ">> \o Error(entry) ELSE <<>>,
     stack |-> IF HasStack(entry)
               THEN outputStackTrace(entry.hasSkippedFrames,
                                     FormatStack(Snapshot(arrays, entry)))
               ELSE outputStackTrace(FALSE, <<>>)]

RECURSIVE getEntries_loop(_, _)
\* The loop of getEntries: each error walked is prepended to entries.
getEntries_loop(err, entries) ==
    IF err = Nil THEN entries
    ELSE getEntries_loop(UnwrapOnce(err), <<err>> \o entries)

RECURSIVE getEntries_Append(_)
\* getEntries appending each error walked instead of prepending it.
getEntries_Append(err) ==
    IF err = Nil THEN <<>> ELSE <<err>> \o getEntries_Append(UnwrapOnce(err))

\* getEntries(err)
getEntries(err) == getEntries_loop(err, <<>>)

\* The body of the report: "(1)" and the "Wraps: (j)" lines, each with the
\* entry printed under it.  i is Go's 0-based index len(entries)-j.
formatEntries_body(entries) ==
    [j \in 1..Len(entries) |->
        LET i == Len(entries) - j IN
        [label |-> j, wraps |-> j >= 2, entry |-> entries[i + 1],
         out |-> printEntry(entries[i + 1])]]

\* The footer written in the order of the entries, not of the labels.
formatEntries_types_Forward(entries) ==
    [j \in 1..Len(entries) |-> [label |-> j, type |-> entries[j].kind]]

\* The "Error types:" footer: " (j) %T" for i from len(entries)-1 down.
formatEntries_types(entries) ==
    [j \in 1..Len(entries) |->
        [label |-> j, type |-> entries[Len(entries) - j + 1].kind]]

\* (w *withStack) formatEntries(st) and (w *withFields) formatEntries(st)
formatEntries(w) ==
    LET entries == getEntries(w.cause) IN
    IF Len(entries) = 0 THEN [body |-> <<>>, types |-> <<>>]
    ELSE [body |-> formatEntries_body(entries),
          types |-> formatEntries_types(entries)]

-----------------------------------------------------------------------------
(* Fields: withFields.getFields and GetFields *)

\* Fields{}: the empty map.
EmptyFields == [k \in {} |-> ""]

\* The copy loop writing nothing over a key that result already has.
CopyFields_KeepFirst(result, fields) ==
    [k \in DOMAIN result \cup DOMAIN fields |->
        IF k \in DOMAIN result THEN result[k] ELSE fields[k]]

\* for k, v := range fields { result[k] = v }
CopyFields(result, fields) ==
    [k \in DOMAIN result \cup DOMAIN fields |->
        IF k \in DOMAIN fields THEN fields[k] ELSE result[k]]

RECURSIVE getFields_loop(_, _, _)
\* The loop of getFields over entries, from entry number i on.
getFields_loop(entries, i, result) ==
    IF i > Len(entries) THEN result
    ELSE LET m == As(entries[i], "withFields") IN
         getFields_loop(entries, i + 1,
                        IF m.ok THEN CopyFields(result, maps[m.val.fields])
                        ELSE result)

\* (w *withFields) getFields()
getFields(w) ==
    CopyFields(getFields_loop(getEntries(w), 1, EmptyFields), maps[w.fields])

\* GetFields(err)
GetFields(err) ==
    LET m == As(err, "withFields") IN
    IF m.ok THEN getFields(m.val) ELSE EmptyFields

-----------------------------------------------------------------------------
(* sentry.go: the stack trace handed to the reporting sink *)

\* The package of the function a program counter lies in.
Module(pc) ==
    IF pc \in {pcGoexit, pcRuntimeMain, pcRuntimeCallers} THEN "runtime"
    ELSE IF pc >= pcRuntimeCallers THEN "errors"
    ELSE "main"

RECURSIVE extractFrames(_)
\* extractFrames(pcs): one frame per counter, each prepended: oldest first
extractFrames(pcs) ==
    IF pcs = <<>> THEN <<>>
    ELSE extractFrames(Tail(pcs)) \o <<Head(pcs)>>

\* filterFrames(frames): without the frames of the Go runtime
filterFrames(frames) ==
    SelectSeq(frames, LAMBDA f : Module(f) # "runtime")

NoTrace == [isNil |-> TRUE, frames |-> <<>>]

\* The counters runtime.Callers(1, pcs) writes when NewSentryStacktrace is
\* called by ExtractSentryStacktrace, itself called from outer.
NewSentryStacktrace_written(buflen, outer) ==
    runtimeCallers(1, <<pcRuntimeCallers, pcNewSentryStacktrace,
                        pcExtractSentryStacktrace>> \o outer, buflen)

\* pcs after runtime.Callers has written got over its first entries
Overwrite(pcs, got) ==
    [i \in 1..Len(pcs) |-> IF i <= Len(got) THEN got[i] ELSE pcs[i]]

\* NewSentryStacktrace(pcs): the trace returned
NewSentryStacktrace(pcs, outer) ==
    LET got == NewSentryStacktrace_written(Len(pcs), outer) IN
    IF Len(got) = 0 THEN NoTrace
    ELSE [isNil |-> FALSE, frames |-> filterFrames(extractFrames(got))]

-----------------------------------------------------------------------------
(* sentry.go: parsePrintedStack.  A text is a sequence of lines; a line is *)
(* whether it begins with a tab, and its tokens after the tab.             *)

Line(tab, text) == [tab |-> tab, text |-> text]

\* strings.LastIndex(s, tok): the last position of tok in s, 0 if none.
LastIndex(str, tok) ==
    LET at == {i \in 1..Len(str) : str[i] = tok} IN
    IF at = {} THEN 0 ELSE CHOOSE i \in at : \A j \in at : j <= i

\* strconv.Atoi of a token; 0 when it is no number.
Atoi(tok) ==
    CASE tok = "22" -> 22
      [] tok = "26" -> 26
      [] OTHER -> 0

\* strings.Split(strings.TrimSpace(st), "\n") of the text made of lines:
\* the white space before the first line goes, and the empty text splits
\* into one empty line.
SplitTrimmed(lines) ==
    IF lines = <<>> THEN <<Line(FALSE, <<>>)>>
    ELSE <<Line(FALSE, Head(lines).text)>> \o Tail(lines)

\* functionName(fnName): package and name, split at the last "."
functionName(fnName) ==
    LET idx == LastIndex(fnName, ".") IN
    IF idx # 0
    THEN [pack |-> SubSeq(fnName, 1, idx - 1),
          name |-> SubSeq(fnName, idx + 1, Len(fnName))]
    ELSE [pack |-> <<>>, name |-> fnName]

\* parsePrintedStackEntry(lines, i); i is 1-based here.
parsePrintedStackEntry(lines, i) ==
    LET fnName == lines[i].text IN
    IF i < Len(lines) /\ lines[i + 1].tab
    THEN LET fileLine == lines[i + 1].text
             lineSep == LastIndex(fileLine, ":")
         IN IF lineSep = 0
            THEN [newI |-> i + 1, file |-> fileLine, line |-> 0,
                  fnName |-> fnName]
            ELSE [newI |-> i + 1, file |-> SubSeq(fileLine, 1, lineSep - 1),
                  line |-> IF lineSep + 1 = Len(fileLine)
                           THEN Atoi(fileLine[lineSep + 1]) ELSE 0,
                  fnName |-> fnName]
    ELSE [newI |-> i, file |-> <<>>, line |-> 0, fnName |-> fnName]

\* The frame parsePrintedStack composes from an entry.
ComposeFrame(file, line, fnName) ==
    IF fnName # <<"unknown">>
    THEN [AbsPath |-> file, Lineno |-> line,
          Module |-> functionName(fnName).pack,
          Function |-> functionName(fnName).name]
    ELSE [AbsPath |-> file, Lineno |-> line,
          Module |-> <<"unknown">>, Function |-> fnName]

RECURSIVE parsePrintedStack_loop(_, _, _)
\* The loop of parsePrintedStack from line i on: frames appended.
parsePrintedStack_loop(lines, i, frames) ==
    IF i > Len(lines) THEN frames
    ELSE LET e == parsePrintedStackEntry(lines, i) IN
         parsePrintedStack_loop(lines, e.newI + 1,
             Append(frames, ComposeFrame(e.file, e.line, e.fnName)))

RECURSIVE Reverse(_)
\* The frames swapped end for end.
Reverse(frames) ==
    IF frames = <<>> THEN <<>> ELSE Reverse(Tail(frames)) \o <<Head(frames)>>

\* parsePrintedStack(st)
parsePrintedStack(st) ==
    LET frames == parsePrintedStack_loop(SplitTrimmed(st), 1, <<>>) IN
    IF frames = <<>> THEN NoTrace
    ELSE [isNil |-> FALSE, frames |-> Reverse(frames)]

-----------------------------------------------------------------------------
(* sentry.go: ExtractSentryStacktrace *)

\* pkgErr.New(text) of github.com/pkg/errors: a *fundamental, whose
\* StackTrace method returns the program counters it stores.
fundamental(id, msg, pcs) ==
    [kind |-> "fundamental", id |-> id, msg |-> msg, pcs |-> pcs]

\* An error of another package, by what ExtractSentryStacktrace can see of
\* it: whether it is a StackTraceProvider and the text its trace prints as,
\* whether reflection finds a StackTrace method, whether that method returns
\* a slice ("slice") and the counters in it, and its private field frame
\* (the three counters of an xerrors error, or none).
foreign(id, provider, text, method, shape, pcs, frame) ==
    [kind |-> "foreign", id |-> id, msg |-> <<"hello">>,
     provider |-> provider, text |-> text, method |-> method,
     shape |-> shape, pcs |-> pcs, frame |-> frame]

\* convertPkgStack(st), st printing as text
convertPkgStack(text) ==
    IF text = <<>> THEN NoTrace ELSE parsePrintedStack(text)

\* extractReflectedSentryStacktraceMethod(err).IsValid(): *withStack and
\* *withFields have the StackTrace method of the *Stack they embed.
extractReflectedSentryStacktraceMethod(err) ==
    \/ err.kind \in {"fundamental", "withStack", "withFields"}
    \/ (err.kind = "foreign" /\ err.method)

\* extractPcs(method): the counters of the slice that the method returns;
\* none when it returns no slice (*withFields returns a *StackTrace)
extractPcs(err) ==
    CASE err.kind = "fundamental" -> err.pcs
      [] err.kind = "foreign" /\ err.shape = "slice" -> err.pcs
      [] OTHER -> <<>>

\* extractXErrorsPC(err): the field frame without its first counter; a
\* value without the field panics and the recover gives nil.
extractXErrorsPC(err) ==
    IF err.kind = "foreign" /\ err.frame # <<>> THEN Tail(err.frame) ELSE <<>>

\* The trace of the counters found by reflection.
TraceOfPcs(pcs) ==
    IF Len(pcs) = 0 THEN NoTrace
    ELSE [isNil |-> FALSE, frames |-> filterFrames(extractFrames(pcs))]

\* ExtractSentryStacktrace going on to the next path when one yields nothing.
ExtractSentryStacktrace_Fallthrough(err, outer) ==
    IF err.kind = "withStack"
    THEN NewSentryStacktrace(Snapshot(arrays, err), outer)
    ELSE IF err.kind = "foreign" /\ err.provider /\ err.text # <<>>
    THEN convertPkgStack(err.text)
    ELSE IF extractReflectedSentryStacktraceMethod(err)
            /\ extractPcs(err) # <<>>
    THEN TraceOfPcs(extractPcs(err))
    ELSE TraceOfPcs(extractXErrorsPC(err))

\* ExtractSentryStacktrace(err): the trace returned.
ExtractSentryStacktrace(err, outer) ==
    IF err.kind = "withStack"
    THEN NewSentryStacktrace(Snapshot(arrays, err), outer)
    ELSE IF err.kind = "foreign" /\ err.provider
    THEN convertPkgStack(err.text)
    ELSE TraceOfPcs(IF extractReflectedSentryStacktraceMethod(err)
                    THEN extractPcs(err)
                    ELSE extractXErrorsPC(err))

\* The backing arrays after ExtractSentryStacktrace(err)
ExtractSentryStacktrace_arrays(err, outer) ==
    IF err.kind = "withStack"
    THEN LET a == err.stack.arr
             got == NewSentryStacktrace_written(err.stack.len, outer)
         IN [arrays EXCEPT ![a] = Overwrite(arrays[a], got)]
    ELSE arrays


-----------------------------------------------------------------------------
(* The program: package-level errors, error variables, and the calls       *)

\* Package-level errors, allocated before main (identities below 0).
errOne == errorString(-1, <<"one">>)
errEmpty == errorString(-2, <<>>)
pig == myError(<<"some pig">>)
wilbur == [kind |-> "wrapError", id |-> -3,
           msg |-> <<"wilbur">> \o sep \o pig.msg, err |-> pig]

flagged == [kind |-> "wrapper", id |-> -4, front |-> errOne, back |-> wilbur]

Sentinels == {errOne, errEmpty, wilbur, flagged}

\* Fields maps of the program.
fieldsTwo == [b |-> "true", msg |-> "two"]
fieldsThree == [c |-> "nil", msg |-> "three"]

\* What a call may be given: a variable (its number) or a package-level
\* error (its identity).
Sources == Regs \cup {x.id : x \in Sentinels}
Val(s) == IF s \in Regs THEN regs[s] ELSE CHOOSE x \in Sentinels : x.id = s

\* The variables after res is assigned to d.
Put(d, res) == [regs EXCEPT ![d] = res]

NoWalk == [active |-> FALSE, back |-> Nil, front |-> Nil, cur |-> Nil, k |-> 0]
\* A goroutine that runs no operation.
Idle == [op |-> "idle", pc |-> "done", i |-> 0, r |-> 0]

Gors == {1, 2}

NoElide == [prev |-> NilStack, new |-> NilStack, done |-> FALSE,
            res |-> [st |-> NilStack, elided |-> FALSE]]

\* The program at the start of main, but for el and last.
InitMain ==
    /\ regs = [r \in Regs |-> Nil]
    /\ nextId = 1
    /\ arrays = <<>>
    /\ maps = <<fieldsTwo, fieldsThree>>
    /\ callstack = <<pcMain, pcRuntimeMain, pcGoexit>>
    /\ walk = NoWalk
    /\ gor = [g \in Gors |-> Idle]

InitProgram == InitMain /\ last = [op |-> "none"]

Init == InitProgram /\ el = NoElide

RECURSIVE Flatten(_)
\* The nodes of a value, itself first, outer before inner and front before
\* back.
Flatten(e) ==
    IF e = Nil THEN <<>>
    ELSE <<e>> \o
         (CASE e.kind = "wrapper" -> Flatten(e.front) \o Flatten(e.back)
            [] e.kind = "wrapError" -> Flatten(e.err)
            [] e.kind \in {"withStack", "withFields"} -> Flatten(e.cause)
            [] OTHER -> <<>>)

Nodes(e) == {Flatten(e)[i] : i \in 1..Len(Flatten(e))}

\* The number of nodes of a value.
Size(e) == Len(Flatten(e))

\* Whether the value was allocated by the call that returned it.
IsFresh(res) == res # Nil /\ res.kind # "myError" /\ res.id = nextId

\* regs[d] = With(b, f)
DoWith(d, b, f) ==
    LET res == With(Val(b), Val(f), nextId) IN
    /\ ~walk.active
    /\ IsFresh(res) => nextId <= MaxAlloc
    /\ Size(res) <= MaxNodes
    /\ regs' = Put(d, res)
    /\ nextId' = IF IsFresh(res) THEN nextId + 1 ELSE nextId
    /\ last' = [op |-> "With", back |-> Val(b), front |-> Val(f), res |-> res,
                alloc |-> IsFresh(res)]
    /\ UNCHANGED <<arrays, maps, callstack, walk, el, gor>>

\* regs[d] = fmt.Errorf("ctx: %w", s)
DoErrorf(d, s) ==
    LET res == Errorf(<<"ctx">>, Val(s), nextId) IN
    /\ ~walk.active
    /\ Val(s) # Nil
    /\ nextId <= MaxAlloc
    /\ Size(res) <= MaxNodes
    /\ regs' = Put(d, res)
    /\ nextId' = nextId + 1
    /\ last' = [op |-> "Errorf", err |-> Val(s), res |-> res]
    /\ UNCHANGED <<arrays, maps, callstack, walk, el, gor>>

\* regs[d] = WithStack(s)
DoWithStack(d, s) ==
    LET r == WithStack(Val(s), callstack, nextId) IN
    /\ ~walk.active
    /\ IsFresh(r.res) => nextId <= MaxAlloc
    /\ Size(r.res) <= MaxNodes
    /\ regs' = Put(d, r.res)
    /\ arrays' = r.arrays
    /\ nextId' = IF IsFresh(r.res) THEN nextId + 1 ELSE nextId
    /\ last' = [op |-> "WithStack", err |-> Val(s), res |-> r.res]
    /\ UNCHANGED <<maps, callstack, walk, el, gor>>

\* regs[d] = WrapWithFields(s, m), m a map of the program or nil (0)
DoWrapWithFields(d, s, m) ==
    LET r == WrapWithFields(Val(s), m, callstack, nextId) IN
    /\ ~walk.active
    /\ IsFresh(r.res) => nextId <= MaxAlloc
    /\ Size(r.res) <= MaxNodes
    /\ regs' = Put(d, r.res)
    /\ arrays' = r.arrays
    /\ nextId' = IF IsFresh(r.res) THEN nextId + 1 ELSE nextId
    /\ last' = [op |-> "WrapWithFields", err |-> Val(s), res |-> r.res]
    /\ UNCHANGED <<maps, callstack, walk, el, gor>>

\* ExtractSentryStacktrace(regs[r])
DoExtract(r) ==
    /\ ~walk.active
    /\ regs[r] # Nil
    /\ arrays' = ExtractSentryStacktrace_arrays(regs[r], callstack)
    /\ last' = [op |-> "Extract", err |-> regs[r],
                res |-> ExtractSentryStacktrace(regs[r], callstack)]
    /\ UNCHANGED <<regs, nextId, maps, callstack, walk, el, gor>>

\* fmt.Sprintf("%+v", regs[r]) of an annotated error: its formatEntries
DoFormat(r) ==
    /\ ~walk.active
    /\ HasStack(regs[r])
    /\ last' = [op |-> "Format", err |-> regs[r], out |-> formatEntries(regs[r])]
    /\ UNCHANGED <<regs, nextId, arrays, maps, callstack, walk, el, gor>>

\* GetFields(regs[r])
DoGetFields(r) ==
    /\ ~walk.active
    /\ regs[r] # Nil
    /\ last' = [op |-> "GetFields", err |-> regs[r], res |-> GetFields(regs[r])]
    /\ UNCHANGED <<regs, nextId, arrays, maps, callstack, walk, el, gor>>

\* The running function calls a function: a frame at pc is pushed.
Call(pc) ==
    /\ ~walk.active
    /\ Len(callstack) < 3 + MaxCalls
    /\ callstack' = <<pc>> \o callstack
    /\ UNCHANGED <<regs, nextId, arrays, maps, walk, last, el, gor>>

\* The running function returns to its caller.
Return ==
    /\ ~walk.active
    /\ Len(callstack) > 3
    /\ callstack' = Tail(callstack)
    /\ UNCHANGED <<regs, nextId, arrays, maps, walk, last, el, gor>>

\* The running function moves on to another statement.
Advance(pc) ==
    /\ ~walk.active
    /\ pc # Head(callstack)
    /\ callstack' = <<pc>> \o Tail(callstack)
    /\ UNCHANGED <<regs, nextId, arrays, maps, walk, last, el, gor>>

RECURSIVE Relabel(_, _)
\* The value with the wrappers a query allocated given identities from id
\* on.  Such wrappers lie on the front spine of the value.
Relabel(e, id) ==
    IF e.kind = "wrapper" /\ e.id = 0
    THEN [e EXCEPT !.id = id, !.front = Relabel(e.front, id + 1)]
    ELSE e

\* for cur := With(b, f); cur != nil; cur = Unwrap(cur): the loop is entered
\* over the value With has just returned
WalkStart(r) ==
    /\ ~walk.active
    /\ regs[r].kind = "wrapper"
    /\ last.op = "With" /\ last.res = regs[r]
    /\ walk' = [active |-> TRUE, back |-> regs[r].back,
                front |-> regs[r].front, cur |-> regs[r], k |-> 0]
    /\ UNCHANGED <<regs, nextId, arrays, maps, callstack, last, el, gor>>

\* One iteration: cur = Unwrap(cur).  The wrappers of the previous
\* iteration are garbage, so their identities are free again.
WalkStep ==
    /\ walk.active
    /\ walk.cur # Nil
    /\ walk' = [walk EXCEPT !.cur = Relabel(UnwrapOnce(walk.cur), nextId),
                            !.k = walk.k + 1]
    /\ UNCHANGED <<regs, nextId, arrays, maps, callstack, last, el, gor>>

\* cur is nil: the loop is left.
WalkEnd ==
    /\ walk.active
    /\ walk.cur = Nil
    /\ walk' = NoWalk
    /\ UNCHANGED <<regs, nextId, arrays, maps, callstack, last, el, gor>>

\* The chain algebra: building chains and walking them, at one call site.
Next ==
    \/ \E d \in Regs : \E b \in Sources : \E f \in Sources : DoWith(d, b, f)
    \/ \E d \in Regs : \E s \in Sources : DoErrorf(d, s)
    \/ \E d \in Regs : \E s \in Sources : DoWithStack(d, s)
    \/ \E d \in Regs : \E s \in Sources : \E m \in 0..Len(maps) :
            DoWrapWithFields(d, s, m)
    \/ \E r \in Regs : DoFormat(r)
    \/ \E r \in Regs : DoGetFields(r)
    \/ \E r \in Regs : WalkStart(r)
    \/ WalkStep
    \/ WalkEnd

Spec == Init /\ [][Next]_vars

\* Annotation and extraction along the call stack, over one base error.
StackSources == Regs \cup {errOne.id}

NextStack ==
    \/ \E d \in Regs : \E s \in StackSources : DoWithStack(d, s)
    \/ \E d \in Regs : \E s \in StackSources : \E m \in 0..Len(maps) :
            DoWrapWithFields(d, s, m)
    \/ \E r \in Regs : DoExtract(r)
    \/ \E pc \in UserPCs : Call(pc)
    \/ Return
    \/ \E pc \in UserPCs \cup {pcMain} : Advance(pc)

SpecStack == Init /\ [][NextStack]_vars

\* The program that only annotates, from any stack of calls.
NextAnnotate ==
    \/ \E d \in Regs : \E s \in StackSources : DoWithStack(d, s)
    \/ \E d \in Regs : \E s \in StackSources : \E m \in 0..Len(maps) :
            DoWrapWithFields(d, s, m)
    \/ \E pc \in UserPCs : Call(pc)
    \/ Return
    \/ \E pc \in UserPCs \cup {pcMain} : Advance(pc)

SpecAnnotate == Init /\ [][NextAnnotate]_vars


-----------------------------------------------------------------------------
(* Goroutines sharing an error value.  A goroutine runs one operation on   *)
(* the error of a variable; each step is one access of shared memory.      *)
(* The fields of a node are written by its constructor only, so the        *)
(* locations followed are the entries of the backing arrays of the stacks  *)
(* and the Fields maps.                                                    *)

GoOps == {"Error", "Is", "As", "Unwrap", "GetFields", "Format", "WithStack",
          "Extract"}

\* The call stack of goroutine g: its function, started by the runtime.
GoFunc == <<4, 5>>
GoStack(g) == <<GoFunc[g], pcGoexit>>

\* The entries of the backing array that the Stack of node n shows.
StackLocs(n) ==
    {[k |-> "arr", a |-> n.stack.arr, i |-> i] : i \in 1..n.stack.len}

\* The Fields map of a withFields node.
MapLocs(n) == IF n.kind = "withFields"
              THEN {[k |-> "map", a |-> n.fields, i |-> 0]} ELSE {}

RECURSIVE getLastStackNode(_)
\* The node whose Stack getLastStack(err) returns, or nil.
getLastStackNode(err) ==
    IF err = Nil THEN Nil
    ELSE IF HasStack(err) THEN err
    ELSE getLastStackNode(UnwrapOnce(err))

\* The entries of prevSt that the loop of ElideSharedStackSuffix compares
\* when WithStack is called over err from the stack outer.
ElideReads(err, outer) ==
    LET prev == getLastStack(err)
        new == Callers(3, <<pcWithStackDepth, pcWithStack>> \o outer)
        i == IF prev.isNil \/ prev.pcs = <<>> \/ new = <<>> THEN 0
             ELSE ElideSharedStackSuffix_loop(new, prev.pcs, Len(new) - 1,
                                              Len(prev.pcs) - 1)
        j == Len(prev.pcs) - 1 - (Len(new) - 1 - i)
        n == getLastStackNode(err)
    IN
    IF prev.isNil \/ prev.pcs = <<>> \/ new = <<>> THEN {}
    ELSE {[k |-> "arr", a |-> n.stack.arr, i |-> m] :
            m \in (IF j >= 1 THEN j + 1 ELSE 2)..Len(prev.pcs)}

\* What the operation reads of shared memory on the error e.
ReadSet(op, e, outer) ==
    CASE op = "Extract" -> IF e.kind = "withStack" THEN StackLocs(e) ELSE {}
      [] op = "Format" ->
            UNION {StackLocs(n) \cup MapLocs(n) : n \in {x \in Nodes(e) : HasStack(x)}}
      [] op = "WithStack" -> ElideReads(e, outer)
      [] op \in {"Error", "GetFields"} -> UNION {MapLocs(n) : n \in Nodes(e)}
      [] OTHER -> {}

\* The counters NewSentryStacktrace writes for goroutine g over the stack
\* of regs[r].
GoWritten(g, r) == NewSentryStacktrace_written(regs[r].stack.len, GoStack(g))

\* Goroutine g begins op on the error of variable r.
GoStart(g, r, op) ==
    /\ ~walk.active
    /\ gor[g] = Idle
    /\ regs[r] # Nil
    /\ op = "WithStack" =>
        nextId + Cardinality({h \in Gors : gor[h].op = "WithStack"}) <= MaxAlloc
    /\ gor' = [gor EXCEPT ![g] =
                [op |-> op, r |-> r, i |-> 1,
                 pc |-> IF op = "Extract" /\ regs[r].kind = "withStack"
                        THEN "write" ELSE "read"]]
    /\ UNCHANGED <<regs, nextId, arrays, maps, callstack, walk, last, el>>

\* runtime.Callers in NewSentryStacktrace stores one entry of pcs.
GoWrite(g) ==
    LET got == GoWritten(g, gor[g].r)
        a == regs[gor[g].r].stack.arr
        i == gor[g].i
    IN /\ gor[g].pc = "write"
       /\ arrays' = [arrays EXCEPT ![a][i] = got[i]]
       /\ gor' = [gor EXCEPT ![g] = IF i < Len(got)
                                    THEN [@ EXCEPT !.i = i + 1]
                                    ELSE [@ EXCEPT !.pc = "read"]]
       /\ UNCHANGED <<regs, nextId, maps, callstack, walk, last, el>>

\* The operation reads what it reads and returns; WithStack has allocated
\* its node and its stack, which the goroutine drops.
GoRead(g) ==
    LET e == regs[gor[g].r]
        r == WithStack(e, GoStack(g), nextId)
    IN /\ gor[g].pc = "read"
       /\ gor[g].op # "idle"
       /\ gor' = [gor EXCEPT ![g] = Idle]
       /\ arrays' = IF gor[g].op = "WithStack" THEN r.arrays ELSE arrays
       /\ nextId' = IF gor[g].op = "WithStack" THEN nextId + 1 ELSE nextId
       /\ UNCHANGED <<regs, maps, callstack, walk, last, el>>

\* The accesses goroutine g makes in its next step: locations and mode.
NextAccess(g) ==
    IF gor[g].op = "idle" THEN [locs |-> {}, write |-> FALSE]
    ELSE IF gor[g].pc = "write"
    THEN [locs |-> {[k |-> "arr", a |-> regs[gor[g].r].stack.arr,
                     i |-> gor[g].i]},
          write |-> TRUE]
    ELSE [locs |-> ReadSet(gor[g].op, regs[gor[g].r], GoStack(g)),
          write |-> FALSE]

AllIdle == \A g \in Gors : gor[g] = Idle

\* An error is built by main, then shared by the goroutines.
NextShare ==
    \/ \E d \in Regs : \E s \in StackSources : AllIdle /\ DoWithStack(d, s)
    \/ \E d \in Regs : \E s \in StackSources : \E m \in 0..Len(maps) :
            AllIdle /\ DoWrapWithFields(d, s, m)
    \/ \E g \in Gors : \E r \in Regs : \E op \in GoOps : GoStart(g, r, op)
    \/ \E g \in Gors : GoWrite(g)
    \/ \E g \in Gors : GoRead(g)

SpecShare == Init /\ [][NextShare]_vars

-----------------------------------------------------------------------------
(* Printed traces given to parsePrintedStack *)

\* The units of a printed trace: a function name with or without its
\* file:line line, or "unknown".
PrintedUnits ==
    {[fn |-> <<"main", ".", "foo">>, file |-> <<"main.go", ":", "22">>],
     [fn |-> <<"main", ".", "bar">>, file |-> <<"main.go", ":", "26">>],
     [fn |-> <<"runtime", ".", "main">>, file |-> <<>>],
     [fn |-> <<"unknown">>, file |-> <<>>]}

RECURSIVE PrintUnits(_)
\* The text of the units, newest first: one or two lines each.
PrintUnits(units) ==
    IF units = <<>> THEN <<>>
    ELSE <<Line(FALSE, Head(units).fn)>>
         \o (IF Head(units).file # <<>>
             THEN <<Line(TRUE, Head(units).file)>> ELSE <<>>)
         \o PrintUnits(Tail(units))

\* Every printed trace of at most MaxLen units.
InitParse ==
    /\ InitMain
    /\ el = NoElide
    /\ last \in {[op |-> "text", units |-> u] :
                    u \in UNION {[1..n -> PrintedUnits] : n \in 0..MaxLen}}

\* last.res = parsePrintedStack(the text of last.units)
ParseCall ==
    /\ last.op = "text"
    /\ last' = [op |-> "parse", units |-> last.units,
                res |-> parsePrintedStack(PrintUnits(last.units))]
    /\ UNCHANGED <<regs, nextId, arrays, maps, callstack, walk, el, gor>>

NextParse == ParseCall

SpecParse == InitParse /\ [][NextParse]_vars

-----------------------------------------------------------------------------
(* ElideSharedStackSuffix as a function of its two arguments *)

ElidePCs == {pcGoexit, pcRuntimeMain, pcMain}

\* Every *Stack of at most MaxLen counters, and the nil pointer.
StackInputs ==
    {NilStack} \cup
    {StackOf(pcs) : pcs \in UNION {[1..n -> ElidePCs] : n \in 0..MaxLen}}

InitElide ==
    /\ InitProgram
    /\ el \in {[prev |-> p, new |-> n, done |-> FALSE, res |-> NoElide.res] :
                 p \in StackInputs, n \in StackInputs}

\* el.res = ElideSharedStackSuffix(el.prev, el.new)
ElideCall ==
    /\ ~el.done
    /\ el' = [el EXCEPT !.done = TRUE,
                        !.res = ElideSharedStackSuffix(el.prev, el.new)]
    /\ UNCHANGED <<regs, nextId, arrays, maps, callstack, walk, last, gor>>

NextElide == ElideCall

SpecElide == InitElide /\ [][NextElide]_vars

-----------------------------------------------------------------------------
(* ExtractSentryStacktrace as a function of an error of another package    *)

\* Where an error of another package may have been made.
ForeignPCs == {pcGoexit, pcRuntimeMain, pcMain} \cup UserPCs

\* The errors of other packages: every combination of what the paths of
\* ExtractSentryStacktrace look at.
ForeignErrs ==
    {foreign(-6, provider, text, method, shape, pcs, frame) :
        provider \in BOOLEAN,
        text \in {<<>>, <<Line(FALSE, <<"main", ".", "foo">>),
                          Line(TRUE, <<"main.go", ":", "22">>)>>},
        method \in BOOLEAN, shape \in {"slice", "other"},
        pcs \in {<<>>, <<4, pcMain>>},
        frame \in {<<>>, <<5, 4, pcMain>>}}

\* Every *fundamental with at most MaxLen program counters, and the errors
\* of ForeignErrs.
InitForeign ==
    /\ InitMain
    /\ el = NoElide
    /\ last \in {[op |-> "arg", err |-> e] :
                    e \in ForeignErrs \cup
                          {fundamental(-5, <<"hello">>, pcs) :
                             pcs \in UNION {[1..n -> ForeignPCs] :
                                              n \in 0..MaxLen}}}

\* last.res = ExtractSentryStacktrace(last.err)
ExtractCall ==
    /\ last.op = "arg"
    /\ last' = [op |-> "Extract", err |-> last.err,
                res |-> ExtractSentryStacktrace(last.err, callstack)]
    /\ arrays' = ExtractSentryStacktrace_arrays(last.err, callstack)
    /\ UNCHANGED <<regs, nextId, maps, callstack, walk, el, gor>>

NextForeign == ExtractCall

SpecForeign == InitForeign /\ [][NextForeign]_vars

-----------------------------------------------------------------------------
(* The program that annotates an error several times and prints it *)

\* regs[1] = WithStack(s)
StackAgain(s) ==
    LET r == WithStack(Val(s), callstack, nextId) IN
    /\ r.res # Nil
    /\ nextId <= MaxStacked
    /\ regs' = Put(1, r.res)
    /\ arrays' = r.arrays
    /\ nextId' = nextId + 1
    /\ last' = [op |-> "WithStack", err |-> Val(s), res |-> r.res]
    /\ UNCHANGED <<maps, callstack, walk, el, gor>>

\* regs[1] = WrapWithFields(s, m)
FieldsAgain(s, m) ==
    LET r == WrapWithFields(Val(s), m, callstack, nextId) IN
    /\ r.res # Nil
    /\ nextId <= MaxStacked
    /\ regs' = Put(1, r.res)
    /\ arrays' = r.arrays
    /\ nextId' = nextId + 1
    /\ last' = [op |-> "WrapWithFields", err |-> Val(s), res |-> r.res]
    /\ UNCHANGED <<maps, callstack, walk, el, gor>>

NextReport ==
    \/ \E s \in StackSources : StackAgain(s)
    \/ \E s \in StackSources : \E m \in 1..Len(maps) : FieldsAgain(s, m)
    \/ DoFormat(1)
    \/ \E pc \in UserPCs \cup {pcMain} : Advance(pc)

SpecReport == Init /\ [][NextReport]_vars

-----------------------------------------------------------------------------
(* The program that gives fields to two errors and combines them *)

\* Two error variables a and b, before With combines them.
InitCombine ==
    /\ InitMain
    /\ el = NoElide
    /\ last = [op |-> "operands", a |-> errOne, b |-> wilbur]

\* The operands after res is assigned to the variable x.
PutOperand(x, res) ==
    [op |-> "operands", a |-> IF x = "a" THEN res ELSE last.a,
                        b |-> IF x = "b" THEN res ELSE last.b]

\* x = WrapWithFields(x, m)
OperandFields(x, m) ==
    LET r == WrapWithFields(last[x], m, callstack, nextId) IN
    /\ last.op = "operands"
    /\ nextId <= MaxOperandAllocs
    /\ last' = PutOperand(x, r.res)
    /\ arrays' = r.arrays
    /\ nextId' = nextId + 1
    /\ UNCHANGED <<regs, maps, callstack, walk, el, gor>>

\* x = fmt.Errorf("ctx: %w", x)
OperandErrorf(x) ==
    /\ last.op = "operands"
    /\ nextId <= MaxOperandAllocs
    /\ last' = PutOperand(x, Errorf(<<"ctx">>, last[x], nextId))
    /\ nextId' = nextId + 1
    /\ UNCHANGED <<regs, arrays, maps, callstack, walk, el, gor>>

\* regs[1] = With(back, front), back and front the two operands in either
\* order, once both carry fields
Combine(back, front) ==
    LET res == With(last[back], last[front], nextId) IN
    /\ last.op = "operands"
    /\ back # front
    /\ As(last.a, "withFields").ok
    /\ As(last.b, "withFields").ok
    /\ regs' = Put(1, res)
    /\ nextId' = nextId + 1
    /\ last' = [op |-> "With", back |-> last[back], front |-> last[front],
                res |-> res, alloc |-> TRUE]
    /\ UNCHANGED <<arrays, maps, callstack, walk, el, gor>>

NextCombine ==
    \/ \E x \in {"a", "b"} : \E m \in 1..Len(maps) : OperandFields(x, m)
    \/ \E x \in {"a", "b"} : OperandErrorf(x)
    \/ \E x \in {"a", "b"} : \E y \in {"a", "b"} : Combine(x, y)
    \/ DoGetFields(1)

SpecCombine == InitCombine /\ [][NextCombine]_vars

-----------------------------------------------------------------------------
(* captureStacktrace on deep stacks *)

\* The stack of a goroutine with d user frames above main.
DeepStack(d) ==
    [i \in 1..(d + 3) |->
        IF i = d + 3 THEN pcGoexit
        ELSE IF i = d + 2 THEN pcRuntimeMain
        ELSE IF i = d + 1 THEN pcMain
        ELSE 4 + (i % 2)]

\* Callers is about to be called with skip from a stack of depth d.
InitCapture ==
    /\ InitMain
    /\ el = NoElide
    /\ last \in [op : {"depth"}, d : 0..MaxDepth, skip : 0..MaxSkip]

\* last.res = Callers(last.skip)
CaptureCall ==
    /\ last.op = "depth"
    /\ last' = [op |-> "Callers", d |-> last.d, skip |-> last.skip,
                res |-> Callers(last.skip, DeepStack(last.d))]
    /\ UNCHANGED <<regs, nextId, arrays, maps, callstack, walk, el, gor>>

NextCapture == CaptureCall

SpecCapture == InitCapture /\ [][NextCapture]_vars

-----------------------------------------------------------------------------
(* wrap.go and the error kinds: Wrap, Wrapf, KhanWrap, kind constructors   *)

RECURSIVE Sprintf(_, _)
\* fmt.Sprintf(format, a...), the format a sequence of tokens of which "%s"
\* is the verb: each verb takes the next operand.
Sprintf(format, a) ==
    IF format = <<>>
    THEN IF a = <<>> THEN <<>> ELSE <<"%!(EXTRA)">>
    ELSE IF Head(format) = "%s"
    THEN IF a = <<>>
         THEN <<"%!s(MISSING)">> \o Sprintf(Tail(format), a)
         ELSE <<Head(a)>> \o Sprintf(Tail(format), Tail(a))
    ELSE <<Head(format)>> \o Sprintf(Tail(format), a)

\* Wrap(err, msg): New allocates at id, With at id + 1.
Wrap(err, msg, id) == With(err, errorString(id, msg), id + 1)

\* Wrapf(err, format, args...)
Wrapf(err, format, a, id) ==
    With(err, errorString(id, Sprintf(format, a)), id + 1)

\* type errorKind string: a value-typed error.
errorKind(text) == [kind |-> "errorKind", msg |-> <<text>>]
NotFoundKind == errorKind("not found")
InternalKind == errorKind("internal error")
UnspecifiedKind == errorKind("unspecified error")

\* The values of an args ...interface{} list, by dynamic type: an error, a
\* string, or a Fields map of the heap.
ErrorArg(e) == [t |-> "error", e |-> e, s |-> "", f |-> 0]
StringArg(s) == [t |-> "string", e |-> Nil, s |-> s, f |-> 0]
FieldsArg(f) == [t |-> "Fields", e |-> Nil, s |-> "", f |-> f]

\* A value as a map holds it: maps of the model hold strings.
Show(v) == IF v.t = "string" THEN v.s ELSE v.t

\* fields[key] = value
SetField(fields, key, value) ==
    [k \in DOMAIN fields \cup {key} |-> IF k = key THEN value ELSE fields[k]]

RECURSIVE newError_loop(_, _)
\* The type switch of newError over args: of each type the last one wins.
newError_loop(args, acc) ==
    IF args = <<>> THEN acc
    ELSE LET v == Head(args) IN
         newError_loop(Tail(args),
             CASE v.t = "error" -> [acc EXCEPT !.cause = v.e]
               [] v.t = "string" -> [acc EXCEPT !.message = v.s]
               [] v.t = "Fields" -> [acc EXCEPT !.fields = v.f]
               [] OTHER -> acc)

\* newError(kind, args...) on the heap of maps mp; the maps it leaves are
\* returned with the error.
newError(kind, args, mp, outer, id) ==
    LET a == newError_loop(args, [message |-> "", cause |-> Nil, fields |-> 0])
        fields == IF a.message # "" /\ a.fields = 0 THEN Len(mp) + 1
                  ELSE a.fields
        mp2 == IF a.message = "" THEN mp
               ELSE IF a.fields = 0 THEN Append(mp, [message |-> a.message])
               ELSE [mp EXCEPT ![a.fields] = SetField(@, "message", a.message)]
        r == IF a.cause # Nil /\ a.cause # kind
             THEN WrapWithFieldsAndDepth(With(a.cause, kind, id), fields, 2,
                                         <<pcnewError>> \o outer, id + 1)
             ELSE WrapWithFieldsAndDepth(kind, fields, 2,
                                         <<pcnewError>> \o outer, id)
    IN [res |-> r.res, arrays |-> r.arrays, maps |-> mp2]

RECURSIVE getErrorKind_loop(_, _)
\* The loop of getErrorKind: As is asked of err at every tmpErr.
getErrorKind_loop(err, tmpErr) ==
    IF tmpErr = Nil THEN [kind |-> UnspecifiedKind, ok |-> FALSE]
    ELSE LET m == As(err, "errorKind") IN
         IF m.ok THEN [kind |-> m.val, ok |-> TRUE]
         ELSE getErrorKind_loop(err, UnwrapOnce(tmpErr))

getErrorKind(err) == getErrorKind_loop(err, err)

RECURSIVE KhanWrap_loop(_, _, _)
\* The key/value loop of KhanWrap from the 1-based index i: the fields
\* built, or the index of a key that is no string.
KhanWrap_loop(args, i, fields) ==
    IF i > Len(args) THEN [ok |-> TRUE, fields |-> fields, i |-> i]
    ELSE IF args[i].t # "string" THEN [ok |-> FALSE, fields |-> fields, i |-> i]
    ELSE KhanWrap_loop(args, i + 2,
                       SetField(fields, args[i].s, Show(args[i + 1])))

\* KhanWrap without the test of err.
KhanWrap_NoNilTest(err, args, mp, outer, id) ==
    newError(InternalKind, <<ErrorArg(err), FieldsArg(Len(mp) + 1)>>,
             Append(mp, [fields |-> "args", message |-> "odd"]),
             <<pcKhanWrap>> \o outer, id)

\* KhanWrap(err, args...)
KhanWrap(err, args, mp, outer, id) ==
    LET out == <<pcKhanWrap>> \o outer
        f == Len(mp) + 1
    IN
    IF err = Nil THEN [res |-> Nil, arrays |-> arrays, maps |-> mp]
    ELSE IF Len(args) % 2 # 0
    THEN newError(InternalKind, <<ErrorArg(err), FieldsArg(f)>>,
                  Append(mp, [fields |-> "args", message |-> "odd"]), out, id)
    ELSE LET l == KhanWrap_loop(args, 1, EmptyFields) IN
         IF ~l.ok
         THEN newError(InternalKind, <<ErrorArg(err), FieldsArg(f)>>,
                       Append(mp, [key |-> Show(args[l.i]),
                                   message |-> "non-string"]), out, id)
         ELSE LET k == getErrorKind(err)
                  mp1 == Append(mp, l.fields)
              IN IF k.ok
                 THEN IF k.kind = UnspecifiedKind
                      THEN newError(InternalKind, args, mp1, out, id)
                      ELSE newError(k.kind, <<ErrorArg(err), FieldsArg(f)>>,
                                    mp1, out, id)
                 ELSE newError(InternalKind, <<ErrorArg(err), FieldsArg(f)>>,
                               mp1, out, id)

\* NotFound(args...)
NotFound(args, mp, outer, id) ==
    KhanWrap(NotFoundKind, args, mp, <<pcNotFound>> \o outer, id)

\* Internal(args...)
Internal(args, mp, outer, id) ==
    KhanWrap(InternalKind, args, mp, <<pcInternal>> \o outer, id)

\* The arguments the kind constructors document: an error to wrap, a string
\* message, a Fields map.
KindArgs == {ErrorArg(errOne), StringArg("msg"), FieldsArg(1)}

\* Every argument list of at most MaxLen arguments.
ArgLists == UNION {[1..n -> KindArgs] : n \in 0..MaxLen}

\* The strings of an argument list, as operands of a format.
RECURSIVE Strings(_)
Strings(args) ==
    IF args = <<>> THEN <<>>
    ELSE (IF Head(args).t = "string" THEN <<Head(args).s>> ELSE <<>>)
         \o Strings(Tail(args))

\* The errors a constructor is given.
KindErrs == {Nil, errOne, NotFoundKind}

\* The nodes of res that the call allocated.
Made(res) == {n \in Nodes(res) : "id" \in DOMAIN n /\ n.id >= nextId}

\* main is about to call a constructor with err, args, a depth and a map.
InitKind ==
    /\ InitMain
    /\ el = NoElide
    /\ last \in [op : {"arg"}, err : KindErrs, args : ArgLists,
                 depth : {0, 1}, fields : {0, 1}]

\* What a call leaves in last.
Called(op, res) ==
    [op |-> op, err |-> last.err, args |-> last.args, res |-> res,
     made |-> {n.kind : n \in Made(res)}]

\* A call of a constructor that returns r and may capture a stack.
CallStacked(op, r) ==
    /\ last.op = "arg"
    /\ last' = Called(op, r.res)
    /\ regs' = Put(1, r.res)
    /\ arrays' = r.arrays
    /\ nextId' = nextId + Cardinality(Made(r.res))
    /\ UNCHANGED <<callstack, walk, el, gor>>

CallWithStack ==
    /\ CallStacked("WithStack", WithStack(last.err, callstack, nextId))
    /\ UNCHANGED maps

CallWithStackDepth ==
    /\ CallStacked("WithStackDepth",
                   WithStackDepth(last.err, last.depth, callstack, nextId))
    /\ UNCHANGED maps

CallWrapWithFields ==
    /\ CallStacked("WrapWithFields",
                   WrapWithFields(last.err, last.fields, callstack, nextId))
    /\ UNCHANGED maps

CallWrapWithFieldsAndDepth ==
    /\ CallStacked("WrapWithFieldsAndDepth",
                   WrapWithFieldsAndDepth(last.err, last.fields, last.depth,
                                          callstack, nextId))
    /\ UNCHANGED maps

\* regs[1] = Wrap(err, "ctx"); New allocates whatever err is.
CallWrap ==
    LET res == Wrap(last.err, <<"ctx">>, nextId) IN
    /\ last.op = "arg"
    /\ last' = Called("Wrap", res)
    /\ regs' = Put(1, res)
    /\ nextId' = nextId + 1 + Cardinality({n \in Made(res) : n.kind = "wrapper"})
    /\ UNCHANGED <<arrays, maps, callstack, walk, el, gor>>

\* regs[1] = Wrapf(err, "ctx %s", strings of args...)
CallWrapf ==
    LET res == Wrapf(last.err, <<"ctx", "%s">>, Strings(last.args), nextId) IN
    /\ last.op = "arg"
    /\ last' = Called("Wrapf", res)
    /\ regs' = Put(1, res)
    /\ nextId' = nextId + 1 + Cardinality({n \in Made(res) : n.kind = "wrapper"})
    /\ UNCHANGED <<arrays, maps, callstack, walk, el, gor>>

CallKhanWrap ==
    LET r == KhanWrap(last.err, last.args, maps, callstack, nextId) IN
    /\ CallStacked("KhanWrap", r)
    /\ maps' = r.maps

CallNotFound ==
    LET r == NotFound(last.args, maps, callstack, nextId) IN
    /\ CallStacked("NotFound", r)
    /\ maps' = r.maps

CallInternal ==
    LET r == Internal(last.args, maps, callstack, nextId) IN
    /\ CallStacked("Internal", r)
    /\ maps' = r.maps

NextKind ==
    \/ CallWithStack
    \/ CallWithStackDepth
    \/ CallWrapWithFields
    \/ CallWrapWithFieldsAndDepth
    \/ CallWrap
    \/ CallWrapf
    \/ CallKhanWrap
    \/ CallNotFound
    \/ CallInternal

SpecKind == InitKind /\ [][NextKind]_vars

-----------------------------------------------------------------------------
(* The program that goes on using its maps after WrapWithFields *)

\* The map without the key: delete(fields, key)
DeleteField(fields, key) == [k \in DOMAIN fields \ {key} |-> fields[k]]

\* maps[m]["b"] = "new", in the caller of WrapWithFields or of GetFields
CallerSets(m) ==
    /\ maps' = [maps EXCEPT ![m] = SetField(@, "b", "new")]
    /\ maps' # maps
    /\ UNCHANGED <<regs, nextId, arrays, callstack, walk, last, el, gor>>

\* delete(maps[m], "msg")
CallerDeletes(m) ==
    /\ maps' = [maps EXCEPT ![m] = DeleteField(@, "msg")]
    /\ maps' # maps
    /\ UNCHANGED <<regs, nextId, arrays, callstack, walk, last, el, gor>>

\* f := GetFields(regs[1]): the map returned is a new map of the heap
GetFieldsCall ==
    /\ regs[1] # Nil
    /\ Len(maps) < MaxMaps
    /\ maps' = Append(maps, GetFields(regs[1]))
    /\ last' = [op |-> "GetFields", err |-> regs[1], res |-> Len(maps) + 1]
    /\ UNCHANGED <<regs, nextId, arrays, callstack, walk, el, gor>>

NextAlias ==
    \/ \E s \in StackSources : \E m \in 1..Len(maps) : DoWrapWithFields(1, s, m)
    \/ \E m \in 1..Len(maps) : CallerSets(m)
    \/ \E m \in 1..Len(maps) : CallerDeletes(m)
    \/ GetFieldsCall

SpecAlias == Init /\ [][NextAlias]_vars

-----------------------------------------------------------------------------
(* Claims about suffix elision *)

RECURSIVE SharedSuffixLen(_, _)
\* The length of the longest run of identical counters at the oldest ends.
SharedSuffixLen(a, b) ==
    IF a = <<>> \/ b = <<>> \/ a[Len(a)] # b[Len(b)] THEN 0
    ELSE 1 + SharedSuffixLen(SubSeq(a, 1, Len(a) - 1), SubSeq(b, 1, Len(b) - 1))

Max(a, b) == IF a > b THEN a ELSE b

\* Both arguments of the call are snapshots with frames.
ElideNonEmpty ==
    /\ el.done
    /\ ~el.prev.isNil /\ ~el.new.isNil
    /\ el.prev.pcs # <<>> /\ el.new.pcs # <<>>

\* C6: for non-empty previous and new, the snapshot returned is new[0:k]
\* with k = max(1, len(new) - m), m the length of the shared suffix: every
\* frame of new outside the shared suffix is retained.
C6_ExactElision ==
    ElideNonEmpty =>
        LET m == SharedSuffixLen(el.new.pcs, el.prev.pcs)
            k == Max(1, Len(el.new.pcs) - m)
        IN el.res.st.pcs = SubSeq(el.new.pcs, 1, k)

\* C7: for every previous and every non-empty new, the snapshot returned is
\* a non-empty prefix of new: the newest frame is always kept.
C7_NeverEmpty ==
    (el.done /\ ~el.new.isNil /\ el.new.pcs # <<>>) =>
        /\ ~el.res.st.isNil
        /\ Len(el.res.st.pcs) \in 1..Len(el.new.pcs)
        /\ el.res.st.pcs = SubSeq(el.new.pcs, 1, Len(el.res.st.pcs))
        /\ el.res.st.pcs[1] = el.new.pcs[1]

\* C7 witness: the whole of new is a shared suffix of previous, and one
\* frame is left.
C7_Witness ==
    /\ ElideNonEmpty
    /\ Len(el.new.pcs) >= 2
    /\ Len(el.prev.pcs) > Len(el.new.pcs)
    /\ SharedSuffixLen(el.new.pcs, el.prev.pcs) = Len(el.new.pcs)
    /\ el.res.st.pcs = <<el.new.pcs[1]>>

\* C8: the flag returned is true exactly when the snapshot returned is
\* strictly shorter than new.
C8_FlagIffShorter ==
    (el.done /\ ~el.new.isNil) =>
        (el.res.elided <=> Len(el.res.st.pcs) < Len(el.new.pcs))

\* C9: eliding a snapshot of more than one frame against itself yields its
\* newest frame alone with the flag true; a one-frame snapshot is returned
\* as it is with the flag false.
C9_SelfElision ==
    (ElideNonEmpty /\ el.prev = el.new) =>
        IF Len(el.new.pcs) > 1
        THEN el.res.st.pcs = <<el.new.pcs[1]>> /\ el.res.elided
        ELSE el.res.st = el.new /\ ~el.res.elided


-----------------------------------------------------------------------------
(* Claims about the With combinator *)

RECURSIVE Erase(_)
\* The value without the identities of the wrappers the walk allocated.
Erase(e) ==
    IF e.kind = "wrapper" /\ e.id >= nextId
    THEN [e EXCEPT !.id = 0, !.front = Erase(e.front)]
    ELSE e

RECURSIVE FrontChain(_)
\* front's own unwrap chain: f0 = front, f1, ...
FrontChain(f) == IF f = Nil THEN <<>> ELSE <<f>> \o FrontChain(ErrorsUnwrap(f))

RECURSIVE BackAt(_, _)
\* The value k single steps down the chain of b.
BackAt(b, k) == IF k = 0 \/ b = Nil THEN b ELSE BackAt(UnwrapOnce(b), k - 1)

\* C1: with f0 = front, ..., f(n-1) the unwrap chain of front, k single
\* steps of unwrapping With(back, front) yield a wrapper holding (f_k, back)
\* for k < n, back itself for k = n, and the chain of back afterwards: no
\* entry of back's chain comes before front's chain is exhausted.
C1_UnwrapOrder ==
    walk.active =>
        LET fs == FrontChain(walk.front)
            n == Len(fs)
        IN IF walk.k < n
           THEN /\ walk.cur.kind = "wrapper"
                /\ Erase(walk.cur.front) = fs[walk.k + 1]
                /\ walk.cur.back = walk.back
           ELSE IF walk.k = n THEN walk.cur = walk.back
           ELSE Erase(walk.cur) = BackAt(walk.back, walk.k - n)

\* C1 witness: the walk has gone through a front chain of more than one
\* entry and through back, and is in back's own chain.
C1_Witness ==
    /\ walk.active
    /\ Len(FrontChain(walk.front)) >= 2
    /\ walk.k = Len(FrontChain(walk.front)) + 1
    /\ walk.cur # Nil

\* The references Is is asked about.
Targets == Sentinels \cup {pig} \cup UNION {Nodes(regs[r]) : r \in Regs}

\* C2: wherever a With node lies in a value (under another With, WithStack,
\* WrapWithFields or a %w wrapper), every target that Is finds in its back
\* or in its front is found by Is in the node and in the whole value.
C2_RootCause ==
    \A r \in Regs : \A w \in Nodes(regs[r]) :
        w.kind = "wrapper" =>
            \A x \in Targets :
                (Is(w.back, x) \/ Is(w.front, x)) =>
                    (Is(w, x) /\ Is(regs[r], x))

\* C2 witness: a With node under a further layer, with a target that only
\* its back holds.
C2_Witness ==
    \E r \in Regs : \E w \in Nodes(regs[r]) :
        /\ w.kind = "wrapper" /\ w # regs[r]
        /\ regs[r].kind \in {"withStack", "withFields", "wrapError"}
        /\ \E x \in Targets : Is(w.back, x) /\ ~Is(w.front, x) /\ Is(regs[r], x)

\* The first node of a value that is assignable to T, if there is one.
Assignables(e, T) == SelectSeq(Flatten(e), LAMBDA v : AssignableTo(v, T))

\* What As is to yield over a With of back and front, from their chains.
AsFromChains(back, front, T) ==
    IF Assignables(front, T) # <<>> THEN Match(Assignables(front, T)[1])
    ELSE IF Assignables(back, T) # <<>> THEN Match(Assignables(back, T)[1])
    ELSE NoMatch

\* The result of With the program has just got, both operands being there.
LastWith == last.op = "With" /\ last.back # Nil /\ last.front # Nil

\* C3 as stated: As over With(back, front) succeeds whenever a value
\* assignable to the target type is in front's chain or in back's, and sets
\* the target to the one of front's chain when there is one.
C3_AsFrontFirst ==
    LastWith =>
        \A T \in TargetTypes :
            AsFromChains(last.back, last.front, T).ok =>
                As(last.res, T) = AsFromChains(last.back, last.front, T)

\* C3: As over With(back, front) sets the target to the With node itself
\* when the node is assignable to the target type; otherwise it succeeds
\* exactly when an assignable value is in front's chain or in back's, and
\* sets the target to the first of front's chain, or else of back's chain.
C3_AsNodeThenFront ==
    LastWith =>
        \A T \in TargetTypes :
            As(last.res, T) =
                IF AssignableTo(last.res, T) THEN Match(last.res)
                ELSE AsFromChains(last.back, last.front, T)

\* C3 witness: both chains hold a value of a type the node is not
\* assignable to, and they are different values.
C3_Witness ==
    /\ LastWith
    /\ \E T \in TargetTypes :
        /\ ~AssignableTo(last.res, T)
        /\ Assignables(last.front, T) # <<>>
        /\ Assignables(last.back, T) # <<>>
        /\ Assignables(last.front, T)[1] # Assignables(last.back, T)[1]
        /\ As(last.res, T).val = Assignables(last.front, T)[1]

\* C4: With(nil, front) is nil; With(back, nil) is back itself and nothing
\* is allocated; a wrapper is allocated only when both are non-nil; and no
\* wrapper, those Unwrap allocates included, has a nil front.
C4_NilOperands ==
    /\ last.op = "With" =>
        /\ last.back = Nil => (last.res = Nil /\ ~last.alloc)
        /\ (last.back # Nil /\ last.front = Nil) =>
                (last.res = last.back /\ ~last.alloc)
        /\ last.alloc <=> (last.back # Nil /\ last.front # Nil)
        /\ last.alloc => /\ last.res.kind = "wrapper"
                         /\ last.res.front = last.front
                         /\ last.res.back = last.back
    /\ \A w \in UNION {Nodes(regs[r]) : r \in Regs} \cup Nodes(walk.cur) :
            w.kind = "wrapper" => w.front # Nil

\* C4 witness: With(back, nil) has returned a back that is itself a wrapper.
C4_Witness ==
    /\ last.op = "With"
    /\ last.front = Nil
    /\ last.back.kind = "wrapper"
    /\ \E r \in Regs : regs[r] = last.back

RECURSIVE Leaves(_)
\* The messages of the operands of a nest of With calls, front to back.
Leaves(e) ==
    IF e.kind = "wrapper" THEN Leaves(e.front) \o Leaves(e.back)
    ELSE <<Error(e)>>

RECURSIVE JoinMessages(_)
\* The non-empty messages joined by ": ".
JoinMessages(ms) ==
    IF ms = <<>> THEN <<>>
    ELSE IF Head(ms) = <<>> THEN JoinMessages(Tail(ms))
    ELSE IF JoinMessages(Tail(ms)) = <<>> THEN Head(ms)
    ELSE Head(ms) \o sep \o JoinMessages(Tail(ms))

\* C5: the message of With(back, front) is front's, ": " and back's when
\* both are non-empty, and the other side's alone when one is empty; so the
\* message of any nest of With is its non-empty leaf messages, front to
\* back, joined by ": ", however the calls are nested.
C5_Message ==
    /\ LastWith =>
        Error(last.res) =
            IF Error(last.front) # <<>> /\ Error(last.back) # <<>>
            THEN Error(last.front) \o <<": ">> \o Error(last.back)
            ELSE IF Error(last.front) = <<>> THEN Error(last.back)
            ELSE Error(last.front)
    /\ \A r \in Regs :
            regs[r].kind = "wrapper" =>
                Error(regs[r]) = JoinMessages(Leaves(regs[r]))

\* C5 witness: a With over a nested With and an operand without message.
C5_Witness ==
    /\ LastWith
    /\ last.back.kind = "wrapper"
    /\ Error(last.front) = <<>>
    /\ Error(last.res) = Error(last.back)
    /\ Len(Leaves(last.res)) >= 3

-----------------------------------------------------------------------------
(* Claims about stack snapshots *)

\* C10: the program counters stored in a node that WithStack or
\* WrapWithFields has returned are never changed by a later operation on
\* the node or on an error wrapping it.
C10_SnapshotImmutable ==
    [][\A r \in Regs : \A n \in Nodes(regs[r]) :
            (HasStack(n) /\ n \in Nodes(regs'[r])) =>
                Snapshot(arrays', n) = Snapshot(arrays, n)]_vars


-----------------------------------------------------------------------------
(* Claims about the verbose report *)

RECURSIVE ChainLen(_)
\* The number of entries a walk by single unwraps reaches from e.
ChainLen(e) == IF e = Nil THEN 0 ELSE 1 + ChainLen(UnwrapOnce(e))

\* The report of an annotated error has just been written.
LastFormat == last.op = "Format"

\* C12 as stated: the entry labelled (1) is the root cause, the last entry
\* reached by repeated unwrap, each following label is the next shallower
\* entry, and (N) is the outermost walked value.
C12_RootCauseFirst ==
    LastFormat =>
        LET n == ChainLen(last.err.cause) IN
        \A j \in 1..n :
            last.out.body[j].entry = BackAt(last.err.cause, n - j)

\* C12: the entry labelled (1) is the outermost walked value, the cause of
\* the error formatted; each following "Wraps: (j)" entry is the next deeper
\* entry, and (N) is the root cause.
C12_OutermostFirst ==
    LastFormat =>
        LET n == ChainLen(last.err.cause) IN
        /\ Len(last.out.body) = n
        /\ \A j \in 1..n :
            last.out.body[j].entry = BackAt(last.err.cause, j - 1)

\* C12 witness: a report of three entries or more, a With node among them.
C12_Witness ==
    /\ LastFormat
    /\ Len(last.out.body) >= 3
    /\ last.out.body[1].entry.kind = "wrapper"
    /\ last.out.body[1].entry # last.out.body[Len(last.out.body)].entry

\* C13: for a walked chain of N entries the body has the labels 1..N once
\* each and in increasing order, the first without and the others with
\* "Wraps:", and the footer has N types, the one after label j being the
\* type of the entry the body printed under label j.
C13_LabelsAndFooter ==
    LastFormat =>
        LET n == ChainLen(last.err.cause) IN
        /\ Len(last.out.body) = n /\ Len(last.out.types) = n
        /\ \A j \in 1..n :
            /\ last.out.body[j].label = j
            /\ last.out.body[j].wraps <=> j > 1
            /\ last.out.types[j].label = j
            /\ last.out.types[j].type = last.out.body[j].entry.kind

\* C13 witness: a report of three entries of three different types.
C13_Witness ==
    /\ LastFormat
    /\ Len(last.out.types) = 3
    /\ Cardinality({last.out.types[j].type : j \in 1..3}) = 3


-----------------------------------------------------------------------------
(* Claims about sharing between goroutines *)

\* Two goroutines are each about to access one location, one of them to
\* write it.
DataRace ==
    \E g \in Gors : \E h \in Gors \ {g} :
        /\ NextAccess(g).write
        /\ NextAccess(g).locs \cap NextAccess(h).locs # {}

\* C11: while goroutines run read operations on one constructed error, or
\* build chains over it, no state is reached in which one of them writes
\* memory that another reads or writes.
C11_NoDataRace == ~DataRace


-----------------------------------------------------------------------------
(* Claims about fields *)

RECURSIVE FieldLayers(_)
\* The maps of a chain of WrapWithFields calls, the outermost first.
FieldLayers(e) ==
    IF e.kind = "withFields" THEN <<maps[e.fields]>> \o FieldLayers(e.cause)
    ELSE <<>>

RECURSIVE BuiltByWrapWithFields(_)
\* The value is a chain of WrapWithFields calls over an error that has
\* no fields.
BuiltByWrapWithFields(e) ==
    IF e.kind = "withFields" THEN BuiltByWrapWithFields(e.cause)
    ELSE ~As(e, "withFields").ok

\* C14: for a chain built by successive WrapWithFields calls, GetFields has
\* every key that any layer sets, and no other, and each key has the value
\* of the outermost layer that sets it.
C14_FieldAggregation ==
    (/\ last.op = "GetFields"
     /\ last.err.kind = "withFields"
     /\ BuiltByWrapWithFields(last.err)) =>
        LET ls == FieldLayers(last.err) IN
        /\ DOMAIN last.res = UNION {DOMAIN ls[i] : i \in 1..Len(ls)}
        /\ \A k \in DOMAIN last.res :
            \E i \in 1..Len(ls) :
                /\ k \in DOMAIN ls[i]
                /\ \A j \in 1..(i - 1) : k \notin DOMAIN ls[j]
                /\ last.res[k] = ls[i][k]

\* C14 witness: layers {b, msg: two} then {c, msg: three} give msg = three
\* with b and c present.
C14_Witness ==
    /\ last.op = "GetFields"
    /\ last.err.kind = "withFields"
    /\ FieldLayers(last.err) = <<fieldsThree, fieldsTwo>>
    /\ BuiltByWrapWithFields(last.err)
    /\ DOMAIN last.res = {"b", "c", "msg"}
    /\ last.res["msg"] = "three"


-----------------------------------------------------------------------------
(* Claims about the Sentry stack trace *)

\* C15: for an error that is itself a withStack node,
\* ExtractSentryStacktrace returns the frames of the snapshot stored in the
\* node, oldest first, whatever the call stack it is called from.
C15_DirectCase ==
    [][(last' # last /\ last'.op = "Extract" /\ last'.err.kind = "withStack")
        => /\ ~last'.res.isNil
           /\ last'.res.frames =
                filterFrames(extractFrames(Snapshot(arrays, last'.err)))]_vars

\* The frame a unit of a printed trace stands for.
FrameOfUnit(u) ==
    [AbsPath |-> IF u.file = <<>> THEN <<>> ELSE <<u.file[1]>>,
     Lineno |-> IF u.file = <<>> THEN 0 ELSE Atoi(u.file[3]),
     Module |-> IF Len(u.fn) = 3 THEN <<u.fn[1]>> ELSE <<"unknown">>,
     Function |-> IF Len(u.fn) = 3 THEN <<u.fn[3]>> ELSE u.fn]

C17_NilWhenNoFrames ==
    last.op = "Extract" => (last.res.isNil \/ last.res.frames # <<>>)

-----------------------------------------------------------------------------
(* Claims about the constructors *)

\* The constructors that wrap the error they are given.
WrappingOps == {"WithStack", "WithStackDepth", "WrapWithFields",
                "WrapWithFieldsAndDepth", "Wrap", "Wrapf", "KhanWrap"}

\* C18: every wrapping constructor (WithStack, WithStackDepth,
\* WrapWithFields, WrapWithFieldsAndDepth, Wrap, Wrapf, KhanWrap) given a nil
\* error returns nil whatever its other arguments are, and makes no node: no
\* node is returned or stored, no stack is captured and no map is made.
C18_AbsentCause ==
    (last.op \in WrappingOps /\ last.err = Nil) =>
        /\ last.res = Nil
        /\ last.made = {}
        /\ regs[1] = Nil
        /\ arrays = <<>>
        /\ maps = <<fieldsTwo, fieldsThree>>

\* KhanWrap has returned nil for a nil error and an odd number of arguments.
C18_Witness ==
    /\ last.op = "KhanWrap"
    /\ last.err = Nil
    /\ Len(last.args) % 2 = 1
    /\ last.res = Nil

\* C19: for every documented argument list (errors to wrap, string
\* messages, Fields maps, alone or combined) the error NotFound returns has
\* the kind NotFoundKind, found first in its chain by getErrorKind, and the
\* error Internal returns has the kind InternalKind.
C19_KindOfConstructor ==
    /\ last.op = "NotFound" =>
           getErrorKind(last.res) = [kind |-> NotFoundKind, ok |-> TRUE]
    /\ last.op = "Internal" =>
           getErrorKind(last.res) = [kind |-> InternalKind, ok |-> TRUE]

-----------------------------------------------------------------------------
(* Claims about the Is method of a wrapper *)

\* C20: the Is method of a node made by With(back, front), asked for a
\* non-nil target, is true if and only if front equals target (target's type
\* being comparable) or front has an Is method that is true of target: back
\* and the entries below it are not looked at.
C20_IsFrontOnly ==
    (last.op = "With" /\ last.res.kind = "wrapper") =>
        \A t \in Targets \ {Nil} :
            wrapper_Is(last.res, t) <=>
                \/ (Comparable(t) /\ last.res.front = t)
                \/ (HasIs(last.res.front) /\ MethodIs(last.res.front, t))

-----------------------------------------------------------------------------
(* Claims about elision along a chain *)

\* The elements of a sequence.
Range(q) == {q[i] : i \in 1..Len(q)}

\* C21: when WithStack or WrapWithFields has annotated an error, every
\* program counter of the capture it made is in the stored snapshot of the
\* node it returned or in that of an annotated node below it: elision drops
\* only frames that an older annotation still shows.
C21_ElisionLossless ==
    (last.op \in {"WithStack", "WrapWithFields"} /\ HasStack(last.res)) =>
        Range(arrays[last.res.stack.arr]) \subseteq
            UNION {Range(Snapshot(arrays, n)) :
                     n \in {m \in Nodes(last.res) : HasStack(m)}}

-----------------------------------------------------------------------------
(* Claims about the paths of ExtractSentryStacktrace *)

-----------------------------------------------------------------------------
(* Claims about the capture *)

\* C23: at every depth of the call stack, also when the frames to capture
\* fill the buffer of 64 * 2^k counters exactly, Callers returns every frame
\* from the skip point to the root of the stack: no capture is cut short.
C23_CompleteCapture ==
    last.op = "Callers" =>
        LET rt == <<pcCallers>> \o DeepStack(last.d) IN
        last.res = SubSeq(rt, last.skip + 1, Len(rt))

\* A capture of exactly 128 frames, which fill the first buffer and then
\* the second, has been returned.
C23_Witness ==
    /\ last.op = "Callers"
    /\ Len(last.res) = 2 * numFrames

-----------------------------------------------------------------------------
(* Claims about the frames of the verbose report *)

\* C24: under every annotated entry the report prints every frame of the
\* entry's stored snapshot that is no frame of the runtime, also the single
\* frame of a snapshot elided down to it, and prints the marker
\* "[...repeated from below...]" if and only if the entry's flag is set.
C24_FramesRendered ==
    LastFormat =>
        \A j \in 1..Len(last.out.body) :
            LET e == last.out.body[j].entry
                out == last.out.body[j].out.stack
            IN HasStack(e) =>
                /\ {pc \in Range(Snapshot(arrays, e)) : Module(pc) # "runtime"}
                      \subseteq Range(out.trace)
                /\ out.repeated <=> e.hasSkippedFrames

-----------------------------------------------------------------------------
(* Claims about the length of walks *)

\* The values of the program and the value the walk is at.
Walked == (UNION {Nodes(regs[r]) : r \in Regs}) \cup
          (IF walk.active /\ walk.cur # Nil THEN {walk.cur} ELSE {})

\* C25: a single unwrap of a value built by New, With, WithStack,
\* WrapWithFields and %w gives nil or a value of strictly fewer nodes, so
\* every walk ends; the walk of With(back, front) visits as many entries as
\* the chains of front and of back have together, each entry once.
C25_WalksTerminate ==
    /\ \A e \in Walked :
        /\ UnwrapOnce(e) # Nil => Size(UnwrapOnce(e)) < Size(e)
        /\ Len(getEntries(e)) = ChainLen(e)
        /\ Cardinality(Range(getEntries(e))) = ChainLen(e)
        /\ e.kind = "wrapper" =>
              ChainLen(e) = Len(FrontChain(e.front)) + ChainLen(e.back)
    /\ (walk.active /\ walk.cur = Nil) =>
          walk.k = Len(FrontChain(walk.front)) + ChainLen(walk.back)

\* A walk over With(back, front) has ended after two entries or more of
\* front's chain and two or more of back's.
C25_Witness ==
    /\ walk.active
    /\ walk.cur = Nil
    /\ Len(FrontChain(walk.front)) >= 2
    /\ ChainLen(walk.back) >= 2
    /\ walk.k = Len(FrontChain(walk.front)) + ChainLen(walk.back)

-----------------------------------------------------------------------------
(* Claims about Is on walked entries *)

\* C26: every value that repeated single unwraps of an error pass through,
\* also the wrappers that the Unwrap of With's node makes while it goes
\* through front, is found in the error by Is.
C26_WalkedEntryIs ==
    (walk.active /\ walk.cur # Nil) => Is(last.res, walk.cur)

-----------------------------------------------------------------------------
(* Claims about the fields of combined errors *)

\* The keys attached anywhere in the value e.
KeysIn(e) ==
    UNION {DOMAIN maps[n.fields] : n \in {m \in Nodes(e) : m.kind = "withFields"}}

\* C27: for errors a and b that both carry fields, GetFields of With(a, b)
\* and of With(b, a) has every key attached in the chain of a and every key
\* attached in the chain of b.
C27_FieldsOfBoth ==
    (last.op = "GetFields" /\ last.err.kind = "wrapper") =>
        KeysIn(last.err.front) \cup KeysIn(last.err.back)
            \subseteq DOMAIN last.res

-----------------------------------------------------------------------------
(* Claims about the maps an error holds *)

\* C28: once WrapWithFields has returned an error, no key that the caller
\* adds to, changes in or deletes from the map it passed, or the map that
\* GetFields returned, changes what Error and GetFields report of the error.
C28_FieldsFixed ==
    [][(regs[1] # Nil /\ regs' = regs) =>
          /\ GetFields(regs[1])' = GetFields(regs[1])
          /\ Error(regs[1])' = Error(regs[1])]_vars

-----------------------------------------------------------------------------
(* Claims about annotated nodes in front *)

\* C29: when With is given an annotated node (withStack or withFields) as
\* front, the node is an entry of the walk of the result, so that the report
\* prints its stack trace, and its snapshot is the one that the lookup of
\* the nearest annotation finds for a later WithStack.
C29_FrontAnnotationVisible ==
    (last.op = "With" /\ last.res.kind = "wrapper" /\ HasStack(last.front)) =>
        /\ last.front \in Range(getEntries(last.res))
        /\ getLastStack(last.res) = StackOf(Snapshot(arrays, last.front))

-----------------------------------------------------------------------------
(* Claims about the Sentry stack trace of a chain *)

\* C30: ExtractSentryStacktrace returns a trace, not nil, for every error
\* with an entry of its chain that owns a snapshot, whether that entry is
\* the error itself or lies below it, and whether it is a withStack or a
\* withFields node.
C30_TraceOfChain ==
    (last.op = "Extract" /\ ~getLastStack(last.err).isNil) => ~last.res.isNil

====
